---- MODULE Spec2Model ----
(***************************************************************************)
(* Model of transcribe.py: the download-transcribe pipeline run by         *)
(* process_video_or_playlist on asyncio's single-threaded event loop.      *)
(*                                                                         *)
(* One task per video runs download_and_transcribe.  A task occupies the   *)
(* loop thread (variable running) from the moment the loop resumes it      *)
(* until it suspends; the only suspension points of the code are a blocked *)
(* semaphore acquire (line 189) and `await asyncio.to_thread(...)`         *)
(* (line 139).  download_audio holds no await, so the probe of the file    *)
(* name and stream.download run without yielding to the loop.  The engine  *)
(* call runs in a worker thread, concurrently with the loop.               *)
(*                                                                         *)
(* Text is modelled as sequences of one-character strings; times and       *)
(* log-probabilities as integers in thousandths, rounded to hundredths.    *)
(***************************************************************************)
EXTENDS Integers, Sequences, FiniteSets, TLC

\* ------------------------------------------------------------------ bounds

MaxVideos == 2
MaxK == 2
MaxSegs == 1
MaxText == 4

\* ------------------------------------------------------------- text helpers

\* A character is a one-character string; the two characters outside ASCII
\* that the model needs are written by their code points: "U+0130" is the
\* capital I with a dot above, "U+0307" the combining dot above.
LowerSeq == <<"a", "b", "c", "d", "e", "f", "g", "h", "i", "j", "k", "l",
              "m", "n", "o", "p", "q", "r", "s", "t", "u", "v", "w", "x",
              "y", "z">>
UpperSeq == <<"A", "B", "C", "D", "E", "F", "G", "H", "I", "J", "K", "L",
              "M", "N", "O", "P", "Q", "R", "S", "T", "U", "V", "W", "X",
              "Y", "Z">>
Lowers == {LowerSeq[i] : i \in 1..Len(LowerSeq)}
Uppers == {UpperSeq[i] : i \in 1..Len(UpperSeq)}
DigitChars == {"0", "1", "2", "3", "4", "5", "6", "7", "8", "9"}

\* \w: letters, digits and the underscore ("U+0130" is a letter, "U+0307" a
\* mark and no word character)
WordChars == Lowers \cup Uppers \cup DigitChars \cup {"_", "U+0130"}
\* \s
SpaceChars == {" ", "\n"}
SepChars == SpaceChars \cup {"-"}

\* str.lower() of one character; the lower case of "U+0130" is two characters
LowerTable ==
  [c \in Uppers \cup {"U+0130"} |->
     IF c = "U+0130" THEN <<"i", "U+0307">>
     ELSE <<LowerSeq[CHOOSE i \in 1..Len(UpperSeq) : UpperSeq[i] = c]>>]

Lower(c) == IF c \in DOMAIN LowerTable THEN LowerTable[c] ELSE <<c>>

RECURSIVE LowerAll(_)
\* str.lower()
LowerAll(s) == IF s = <<>> THEN <<>> ELSE Lower(Head(s)) \o LowerAll(Tail(s))

RECURSIVE CollapseRuns(_, _)
\* re.sub('[-\s]+', '_', s): every maximal run of hyphens/whitespace becomes one "_"
CollapseRuns(s, i) ==
  IF i > Len(s) THEN <<>>
  ELSE IF s[i] \in SepChars
       THEN (IF i > 1 /\ s[i - 1] \in SepChars THEN <<>> ELSE <<"_">>) \o CollapseRuns(s, i + 1)
       ELSE <<s[i]>> \o CollapseRuns(s, i + 1)

RECURSIVE StripLeft(_)
StripLeft(s) == IF s # <<>> /\ Head(s) \in SpaceChars THEN StripLeft(Tail(s)) ELSE s

RECURSIVE StripRight(_)
StripRight(s) ==
  IF s # <<>> /\ s[Len(s)] \in SpaceChars THEN StripRight(SubSeq(s, 1, Len(s) - 1)) ELSE s

Strip(s) == StripRight(StripLeft(s))

\* clean_filename: drop what is not word/whitespace/hyphen, collapse, strip, lower
CleanFilename(t) ==
  LET kept == SelectSeq(t, LAMBDA c : c \in WordChars \cup SepChars)
      joined == Strip(CollapseRuns(kept, 1))
  IN LowerAll(joined)

Digit == <<"0", "1", "2", "3", "4", "5", "6", "7", "8", "9">>

RECURSIVE Str(_)
\* f"{counter}": the decimal digits of a natural number
Str(n) == IF n < 10 THEN <<Digit[n + 1]>> ELSE Str(n \div 10) \o <<Digit[(n % 10) + 1]>>

\* f"{base_filename}_{counter}"
Suffixed(base, n) == base \o <<"_">> \o Str(n)

\* os.path.join('downloaded_audio', f"{filename}.mp3")
AudioPath(fn) == <<"downloaded_audio", "/">> \o fn \o <<".mp3">>

\* f'generated_transcript_combined_texts/{audio_file_name}.md'
TranscriptPath(fn) == <<"generated_transcript_combined_texts", "/">> \o fn \o <<".md">>

\* round(x, 2) on a value held in thousandths; the result is in hundredths
Round2(x) ==
  LET q == x \div 10
      r == x % 10
  IN IF r < 5 THEN q
     ELSE IF r > 5 THEN q + 1
     ELSE IF q % 2 = 0 THEN q ELSE q + 1

\* ------------------------------------------------------ sentence splitter

RECURSIVE DropHyphenBreaks(_, _)
\* line 206: re.sub(r'-(\n)(?=[a-z])', '', text)
DropHyphenBreaks(s, i) ==
  IF i > Len(s) THEN <<>>
  ELSE IF s[i] = "-" /\ i + 2 <= Len(s) /\ s[i + 1] = "\n" /\ s[i + 2] \in Lowers
       THEN DropHyphenBreaks(s, i + 2)
       ELSE <<s[i]>> \o DropHyphenBreaks(s, i + 1)

\* line 207: re.sub(r'(?<=\w)(?<![.?!-]|\d)\n(?![\nA-Z])', ' ', text)
JoinBrokenLines(s) ==
  [i \in 1..Len(s) |->
    IF /\ s[i] = "\n"
       /\ i > 1 /\ s[i - 1] \in WordChars
       /\ s[i - 1] \notin {".", "?", "!", "-"} \cup DigitChars
       /\ ~(i < Len(s) /\ s[i + 1] \in {"\n"} \cup Uppers)
    THEN " " ELSE s[i]]

\* lines 205-208
RemovePaginationBreaks(text) == JoinBrokenLines(DropHyphenBreaks(text, 1))

Tlds == { <<"c", "o", "m">>, <<"n", "e", "t">>, <<"o", "r", "g">>, <<"i", "o">> }

RECURSIVE SkipSpaces(_, _)
\* \s* or \s+ from position i: the position after the run of whitespace
SkipSpaces(s, i) == IF i <= Len(s) /\ s[i] \in SpaceChars THEN SkipSpaces(s, i + 1) ELSE i

\* the characters of w stand at position i of s
StartsWith(s, i, w) == i + Len(w) - 1 <= Len(s) /\ SubSeq(s, i, i + Len(w) - 1) = w

\* line 68: \s*(com|net|org|io)\s matches at position i
TldAhead(s, i) ==
  LET j == SkipSpaces(s, i)
  IN \E w \in Tlds : /\ StartsWith(s, j, w)
                     /\ j + Len(w) <= Len(s)
                     /\ s[j + Len(w)] \in SpaceChars

\* lines 68-70: the pattern matched at position p, its alternatives tried in
\* order; the position after the match, or 0 when nothing matches at p
MatchEnd(s, p) ==
  IF /\ s[p] = "."
     /\ ~TldAhead(s, p + 1)
     /\ ~(p + 1 <= Len(s) /\ s[p + 1] \in DigitChars)
  THEN p + 1
  ELSE IF s[p] \in {".", "!", "?"} /\ p + 1 <= Len(s) /\ s[p + 1] \in SpaceChars
  THEN SkipSpaces(s, p + 1)
  ELSE IF StartsWith(s, p, <<".", ".", ".">>) /\ p + 3 <= Len(s) /\ s[p + 3] \in SpaceChars
  THEN p + 3
  ELSE 0

RECURSIVE ReSplit(_, _, _)
\* lines 71 and 75: re.split(pattern, text) without the None that the split
\* adds after every match for the group of the pattern (the loop skips them):
\* the text between the matches, the matched characters left out
ReSplit(s, last, p) ==
  IF p > Len(s) THEN << SubSeq(s, last, Len(s)) >>
  ELSE IF MatchEnd(s, p) # 0
       THEN << SubSeq(s, last, p - 1) >> \o ReSplit(s, MatchEnd(s, p), MatchEnd(s, p))
       ELSE ReSplit(s, last, p + 1)

\* temp_sentence.count('"')
CountQuotes(t) == Len(SelectSeq(t, LAMBDA c : c = "\""))

\* a variant that takes every fragment for a complete sentence
EvenQuotesAlways(t) == TRUE

\* line 77: temp_sentence.count('"') % 2 == 0
EvenQuotes(t) == CountQuotes(t) % 2 = 0

RECURSIVE Refine(_, _, _)
\* lines 72-81: fragments are joined until the quotes are balanced
Refine(pieces, i, temp) ==
  IF i > Len(pieces)
  THEN (IF temp # <<>> THEN << Strip(temp) >> ELSE <<>>)
  ELSE IF EvenQuotes(temp \o pieces[i])
       THEN << Strip(temp \o pieces[i]) >> \o Refine(pieces, i + 1, <<>>)
       ELSE Refine(pieces, i + 1, temp \o pieces[i])

\* lines 66-82: the splitter that initialize_transcription returns without spaCy
SophisticatedSentenceSplitter(text) ==
  LET refined == Refine(ReSplit(RemovePaginationBreaks(text), 1, 1), 1, <<>>)
  IN SelectSeq([i \in 1..Len(refined) |-> Strip(refined[i])], LAMBDA x : x # <<>>)

\* ---------------------------------------------------------------- inputs

\* video titles as the provider reports them
RawTitles == { <<"A">>, <<"a", " ", "1">>, <<"?">> }

\* the lists of at most n videos a URL may resolve to
TitleLists(n) == UNION { [1..m -> RawTitles] : m \in 0..n }

\* audio files a previous run may have left in downloaded_audio/
OldAudio == { AudioPath(<<"a">>) }

\* transcripts a previous run may have left, given the audio files it left
OldTranscripts(old) == { TranscriptPath(fn) : fn \in { f \in {<<"a">>} : AudioPath(f) \in old } }

\* what may be on disk before the run: audio files alone, or audio files
\* and transcripts (a transcript may have outlived its audio file)
OldDisks(withTranscripts) ==
  { << a, t >> : a \in SUBSET OldAudio,
                 t \in IF withTranscripts THEN SUBSET OldTranscripts(OldAudio) ELSE {{}} }

OldText == <<"o", "l", "d", "\n">>

\* content of an audio file: left by a previous run, downloaded for video v,
\* or the leftover of video v's failed download
OldFile == <<"old">>
AudioOf(v) == <<"audio">> \o Str(v)
PartialOf(v) == <<"partial">> \o Str(v)

SegA == [start |-> 0, end |-> 1234, text |-> <<"a">>, avg_logprob |-> -125]
SegB == [start |-> 1234, end |-> 2996, text |-> <<"b", " ">>, avg_logprob |-> -1338]
SegValues == {SegA, SegB}

\* the recording every video of a run carries: the engine yields its first n
\* segments, in order
Recording == [i \in 1..MaxSegs |-> IF i % 2 = 1 THEN SegA ELSE SegB]

SegSeqs == { SubSeq(Recording, 1, n) : n \in 0..MaxSegs }

\* every segment sequence, for the runs that check the assembly alone
AllSegSeqs == UNION { [1..n -> SegValues] : n \in 0..MaxSegs + 2 }

\* the silent recording, for the runs with one more video
ShortSegSeqs == { <<>> }

\* the characters of the texts handed to the splitter
SplitChars == {"a", "B", "1", ".", "!", "\"", " ", "\n", "-"}

\* every text of at most n characters of cs
Texts(cs, n) == UNION { [1..m -> cs] : m \in 0..n }

QuotedText == <<"H", "e", " ", "s", "a", "i", "d", " ", "\"", "S", "t",
    "o", "p", ".", " ", "N", "o", "w", ".", "\"", " ", "a", "n", "d", " ",
    "l", "e", "f", "t", ".">>

DomainText == <<"s", "e", "e", " ", "a", ".", "i", "o", " ", "n", "o", "w",
    ".", " ", "o", "k">>

SpacedDomainText == <<"a", ".", " ", "i", "o", " ", "b">>

QuestionText == <<"H", "i", "?", " ", "\"", "N", "o", ".", "\n", "N", "o",
    "\"", " ", "a", "-", "\n", "b", ".">>

SampleTexts == {QuotedText, DomainText, SpacedDomainText, QuestionText}

SplitTexts == Texts(SplitChars, MaxText) \cup SampleTexts

\* the characters of the titles handed to clean_filename on its own
TitleChars == {"a", "A", "1", "_", "-", " ", "\n", "/", "?", "U+0130", "U+0307"}

CleanTexts == Texts(TitleChars, MaxText)

\* ----------------------------------------------------------------- state

VARIABLES
  K,           \* max_simultaneous_downloads
  title,       \* videos: the title of each resolved video, in list order
  pc,          \* position of each video's task
  value,       \* download_semaphore._value
  waiters,     \* download_semaphore._waiters (FIFO)
  ready,       \* the loop's queue of tasks to resume
  running,     \* the task occupying the loop thread, 0 when none
  runState,    \* process_video_or_playlist: "awaiting", "returned", "raised"
  taskExc,     \* the task ended with an exception that was not caught
  filename,    \* download_audio: filename
  counter,     \* download_audio: counter
  audio,       \* downloaded_audio/: path -> who wrote the file
  oldAudio,    \* the audio paths present before the run
  oldTranscripts, \* the transcript paths present before the run
  cudaFlag,    \* main: the --cuda option
  cpuThreads,  \* main: the --cpu-threads option
  accel,       \* the machine has an accelerator: cuda.is_available()
  arg,         \* the text a text function is called with, outside the pipeline
  res,         \* what that call returned
  device,      \* the transcription call: what cuda.is_available() answered
               \* and the arguments WhisperModel was built with
  transcripts, \* generated_transcript_combined_texts/: path -> content
  dl,          \* outcome of the acquisition stage: "none", "nostream", "ok",
               \* "error" (transport error, no file left), "errorfile"
               \* (transport error that left a partial file)
  eng,         \* outcome of the engine stage
  segs,        \* the segments the iterator returned by the engine yields
  segIdx,      \* number of segments consumed by the for loop
  text,        \* combined_transcript_text
  meta,        \* combined_transcript_text_list_of_metadata_dicts
  ret,         \* value returned by compute_transcript_with_whisper_from_audio_func
  wrote,       \* the task wrote its transcript artifact
  acquired,    \* permits granted to the task so far
  released     \* permits given back by the task so far

vars == << K, title, pc, value, waiters, ready, running, runState, taskExc,
           filename, counter, audio, oldAudio, oldTranscripts, transcripts, dl, eng, segs,
           cudaFlag, cpuThreads, accel, arg, res, device,
           segIdx, text, meta, ret, wrote, acquired, released >>

\* the variables of the pipeline
pipeVars == << K, title, pc, value, waiters, ready, running, runState, taskExc,
               filename, counter, audio, oldAudio, oldTranscripts, transcripts, dl,
               eng, segs, segIdx, text, meta, ret, wrote, acquired, released,
               cudaFlag, cpuThreads, accel, device >>

gateVars == << value, waiters, acquired, released >>
dlVars == << filename, counter, audio, dl >>
engVars == << eng, segs, segIdx, text, meta, ret, transcripts, wrote, device >>

N == Len(title)
V == 1..N

NoRet == [kind |-> "none"]

\* no text function has been called
NoCall == [fn |-> "none"]

\* no WhisperModel has been built in the call
NoDevice == [kind |-> "none"]

\* values of --cpu-threads
ThreadChoices == {1, 4}

\* lines 214-215: the options as click leaves them when they are not given,
\* on a machine without an accelerator
Defaults == cudaFlag = FALSE /\ cpuThreads = 4 /\ accel = FALSE

\* every combination of --cuda, --cpu-threads and the machine
AnyOptions == cudaFlag \in BOOLEAN /\ cpuThreads \in ThreadChoices /\ accel \in BOOLEAN

\* the state in which process_video_or_playlist awaits asyncio.gather:
\* videos resolved, semaphore and tasks created
Start(titles, disks) ==
  /\ K \in 0..MaxK
  /\ title \in titles
  /\ pc = [v \in V |-> "created"]
  /\ value = K
  /\ waiters = <<>>
  /\ ready = [i \in V |-> i]
  /\ running = 0
  /\ runState = "awaiting"
  /\ taskExc = [v \in V |-> FALSE]
  /\ filename = [v \in V |-> <<>>]
  /\ counter = [v \in V |-> 0]
  /\ \E d \in disks :
       /\ oldAudio = d[1]
       /\ oldTranscripts = d[2]
       /\ audio = [p \in d[1] |-> OldFile]
       /\ transcripts = [p \in d[2] |-> OldText]
  /\ dl = [v \in V |-> "none"]
  /\ eng = [v \in V |-> "none"]
  /\ segs = [v \in V |-> <<>>]
  /\ segIdx = [v \in V |-> 0]
  /\ text = [v \in V |-> <<>>]
  /\ meta = [v \in V |-> <<>>]
  /\ ret = [v \in V |-> NoRet]
  /\ device = [v \in V |-> NoDevice]
  /\ arg = <<>>
  /\ res = NoCall
  /\ wrote = [v \in V |-> FALSE]
  /\ acquired = [v \in V |-> 0]
  /\ released = [v \in V |-> 0]

Init == Start(TitleLists(MaxVideos), OldDisks(FALSE)) /\ Defaults

Set(f, v, x) == [f EXCEPT ![v] = x]

\* ------------------------------------------------------------ the gate

\* a variant that looks at the queue of waiters alone
LockedWaitersOnly == waiters # <<>>

\* asyncio.Semaphore.locked(): no permit left, or somebody already waits
Locked == value = 0 \/ waiters # <<>>

\* the task that the loop resumes next
Runnable(v) == runState = "awaiting" /\ running = 0 /\ ready # <<>> /\ Head(ready) = v

\* a variant that starts the download in the background without the gate
TaskStartUngated(v) ==
  /\ Runnable(v)
  /\ pc[v] = "created"
  /\ ready' = Tail(ready)
  /\ filename' = Set(filename, v, CleanFilename(title[v]))
  /\ pc' = Set(pc, v, "download")
  /\ UNCHANGED << K, title, running, runState, taskExc, oldAudio, oldTranscripts, cudaFlag, cpuThreads, accel, arg, res, counter, audio, dl >>
  /\ UNCHANGED << gateVars, engVars >>

\* line 188-189: the task starts and enters `async with download_semaphore`;
\* it takes a permit at once or queues up and suspends
TaskStart(v) ==
  /\ Runnable(v)
  /\ pc[v] = "created"
  /\ ready' = Tail(ready)
  /\ IF ~Locked
     THEN /\ value' = value - 1
          /\ acquired' = Set(acquired, v, acquired[v] + 1)
          /\ pc' = Set(pc, v, "acquired")
          /\ running' = v
          /\ UNCHANGED waiters
     ELSE /\ waiters' = Append(waiters, v)
          /\ pc' = Set(pc, v, "gate")
          /\ UNCHANGED << value, acquired, running >>
  /\ UNCHANGED << K, title, runState, taskExc, oldAudio, oldTranscripts, cudaFlag, cpuThreads, accel, arg, res, released >>
  /\ UNCHANGED << dlVars, engVars >>

\* line 189: a waiter that was handed a permit is resumed by the loop
GateWake(v) ==
  /\ Runnable(v)
  /\ pc[v] = "gate"
  /\ ready' = Tail(ready)
  /\ pc' = Set(pc, v, "acquired")
  /\ running' = v
  /\ UNCHANGED << K, title, runState, taskExc, oldAudio, oldTranscripts, cudaFlag, cpuThreads, accel, arg, res >>
  /\ UNCHANGED << gateVars, dlVars, engVars >>

\* ------------------------------------------------------- download_audio

\* lines 92-96: filename = clean_filename(video.title); counter = 1
DownloadAudioEnter(v) ==
  /\ running = v
  /\ pc[v] = "acquired"
  /\ filename' = Set(filename, v, CleanFilename(title[v]))
  /\ counter' = Set(counter, v, 1)
  /\ pc' = Set(pc, v, "probe")
  /\ UNCHANGED << K, title, ready, running, runState, taskExc, oldAudio, oldTranscripts, cudaFlag, cpuThreads, accel, arg, res, audio, dl >>
  /\ UNCHANGED << gateVars, engVars >>

\* a variant without the while loop: the first name is taken as it is
ProbeStepOnce(v) ==
  /\ running = v
  /\ pc[v] = "probe"
  /\ pc' = Set(pc, v, "stream")
  /\ UNCHANGED << K, title, ready, running, runState, taskExc, oldAudio, oldTranscripts, cudaFlag, cpuThreads, accel, arg, res >>
  /\ UNCHANGED << gateVars, dlVars, engVars >>

\* lines 97-101: one test of the while loop; on exit the path is free
ProbeStep(v) ==
  /\ running = v
  /\ pc[v] = "probe"
  /\ IF AudioPath(filename[v]) \in DOMAIN audio
     THEN /\ filename' = Set(filename, v, Suffixed(CleanFilename(title[v]), counter[v]))
          /\ counter' = Set(counter, v, counter[v] + 1)
          /\ UNCHANGED pc
     ELSE /\ pc' = Set(pc, v, "stream")
          /\ UNCHANGED << filename, counter >>
  /\ UNCHANGED << K, title, ready, running, runState, taskExc, oldAudio, oldTranscripts, cudaFlag, cpuThreads, accel, arg, res, audio, dl >>
  /\ UNCHANGED << gateVars, engVars >>

\* lines 102-104: the audio-only stream, or ValueError when there is none
SelectStream(v) ==
  /\ running = v
  /\ pc[v] = "stream"
  /\ \E found \in BOOLEAN :
       IF found
       THEN /\ pc' = Set(pc, v, "download")
            /\ UNCHANGED dl
       ELSE /\ pc' = Set(pc, v, "raising")
            /\ dl' = Set(dl, v, "nostream")
  /\ UNCHANGED << K, title, ready, running, runState, taskExc, oldAudio, oldTranscripts, cudaFlag, cpuThreads, accel, arg, res, filename, counter, audio >>
  /\ UNCHANGED << gateVars, engVars >>

\* the file stream.download leaves at the path (opened for writing)
WriteAudio(p, content) == (p :> content) @@ audio

\* lines 105-111: stream.download runs to its end on the loop thread; it
\* writes the file, or raises (caught: return None, None) and may leave a
\* partial file behind
DownloadFinish(v) ==
  /\ running = v
  /\ pc[v] = "download"
  /\ \/ /\ audio' = WriteAudio(AudioPath(filename[v]), AudioOf(v))
        /\ dl' = Set(dl, v, "ok")
     \/ /\ audio' = audio
        /\ dl' = Set(dl, v, "error")
     \/ /\ audio' = WriteAudio(AudioPath(filename[v]), PartialOf(v))
        /\ dl' = Set(dl, v, "errorfile")
  /\ pc' = Set(pc, v, "downloaded")
  /\ UNCHANGED << K, title, ready, running, runState, taskExc, oldAudio, oldTranscripts, cudaFlag, cpuThreads, accel, arg, res, filename, counter >>
  /\ UNCHANGED << gateVars, engVars >>

\* ------------------------------------------------ download_and_transcribe

\* a variant that tests the name alone
HaveAudioNameOnly(v) == filename[v] # <<>>

\* line 191: `if audio_path and audio_filename`
HaveAudio(v) == dl[v] = "ok" /\ filename[v] # <<>>

\* lines 191-193: transcribe only what was downloaded
CheckDownload(v) ==
  /\ running = v
  /\ pc[v] = "downloaded"
  /\ pc' = Set(pc, v, IF HaveAudio(v) THEN "compute" ELSE "leaving")
  /\ UNCHANGED << K, title, ready, running, runState, taskExc, oldAudio, oldTranscripts, cudaFlag, cpuThreads, accel, arg, res >>
  /\ UNCHANGED << gateVars, dlVars, engVars >>

\* line 220: disable_cuda_override = 0 if cuda else 1
DisableCudaOverride(cuda) == IF cuda THEN 0 ELSE 1

\* a variant that takes the accelerator whenever there is one
SelectDeviceAvailable(available, disable_cuda_override) ==
  IF available
  THEN [device |-> "cuda", compute_type |-> "float16"]
  ELSE [device |-> "cpu", compute_type |-> "auto"]

\* lines 127-134: `if cuda.is_available() and not disable_cuda_override`
SelectDevice(available, disable_cuda_override) ==
  IF available /\ disable_cuda_override = 0
  THEN [device |-> "cuda", compute_type |-> "float16"]
  ELSE [device |-> "cpu", compute_type |-> "auto"]

\* line 136: the arguments of WhisperModel(...), with the answer of
\* cuda.is_available() that led to them
ModelArgs(available) ==
  LET choice == SelectDevice(available, DisableCudaOverride(cudaFlag))
  IN [kind |-> "built", available |-> available, device |-> choice.device,
      compute_type |-> choice.compute_type, cpu_threads |-> cpuThreads]

\* a variant that opens the artifact for writing before the engine is called
ComputeEnterOpening(v) ==
  /\ running = v
  /\ pc[v] = "compute"
  /\ device' = Set(device, v, ModelArgs(accel))
  /\ transcripts' = (TranscriptPath(filename[v]) :> <<>>) @@ transcripts
  /\ \E loaded \in BOOLEAN :
       IF loaded
       THEN /\ pc' = Set(pc, v, "engine")
            /\ eng' = Set(eng, v, "running")
            /\ running' = 0
       ELSE /\ pc' = Set(pc, v, "raising")
            /\ eng' = Set(eng, v, "loaderror")
            /\ UNCHANGED running
  /\ UNCHANGED << K, title, ready, runState, taskExc, oldAudio, oldTranscripts, cudaFlag, cpuThreads, accel, arg, res >>
  /\ UNCHANGED << segs, segIdx, text, meta, ret, wrote >>
  /\ UNCHANGED << gateVars, dlVars >>

\* lines 121-139: the device is chosen and the model is built on the loop
\* thread (it may raise), then model.transcribe is handed to a worker thread
\* and the task suspends
ComputeEnter(v) ==
  /\ running = v
  /\ pc[v] = "compute"
  /\ device' = Set(device, v, ModelArgs(accel))
  /\ \E loaded \in BOOLEAN :
       IF loaded
       THEN /\ pc' = Set(pc, v, "engine")
            /\ eng' = Set(eng, v, "running")
            /\ running' = 0
       ELSE /\ pc' = Set(pc, v, "raising")
            /\ eng' = Set(eng, v, "loaderror")
            /\ UNCHANGED running
  /\ UNCHANGED << K, title, ready, runState, taskExc, oldAudio, oldTranscripts, cudaFlag, cpuThreads, accel, arg, res >>
  /\ UNCHANGED << segs, segIdx, text, meta, ret, transcripts, wrote >>
  /\ UNCHANGED << gateVars, dlVars >>

\* line 139: the worker thread ends; the engine raised, or returned segments
\* (one of the sequences of S)
EngineYield(v, S) ==
  /\ pc[v] = "engine"
  /\ \/ /\ eng' = Set(eng, v, "callerror")
        /\ UNCHANGED segs
     \/ /\ eng' = Set(eng, v, "returned")
        /\ \E s \in S : segs' = Set(segs, v, s)
  /\ pc' = Set(pc, v, "engine_done")
  /\ ready' = Append(ready, v)
  /\ UNCHANGED << K, title, running, runState, taskExc, oldAudio, oldTranscripts, cudaFlag, cpuThreads, accel, arg, res >>
  /\ UNCHANGED << segIdx, text, meta, ret, transcripts, wrote >>
  /\ UNCHANGED << gateVars, dlVars >>
  /\ UNCHANGED device

EngineReturn(v) == EngineYield(v, SegSeqs)

EngineReturnAny(v) == EngineYield(v, AllSegSeqs)

EngineReturnShort(v) == EngineYield(v, ShortSegSeqs)

\* a variant for which an iterator that yields nothing counts as false
NotSegmentsEmpty(v) == segs[v] = <<>>

\* line 142: `if not segments`.  WhisperModel.transcribe returns a generator
\* of segments, and a generator object is true whatever it will yield
NotSegments(v) == FALSE

\* line 144: the early return's tuple (its first three positions)
EarlyReturn == [kind |-> "early", text |-> <<>>, meta |-> <<>>, sentences |-> <<>>]

\* lines 139-146: the task is resumed with the thread's outcome
EngineResume(v) ==
  /\ Runnable(v)
  /\ pc[v] = "engine_done"
  /\ ready' = Tail(ready)
  /\ running' = v
  /\ IF eng[v] = "callerror"
     THEN /\ pc' = Set(pc, v, "raising")
          /\ UNCHANGED ret
     ELSE IF NotSegments(v)
     THEN /\ pc' = Set(pc, v, "leaving")
          /\ ret' = Set(ret, v, EarlyReturn)
     ELSE /\ pc' = Set(pc, v, "segments")
          /\ UNCHANGED ret
  /\ UNCHANGED << K, title, runState, taskExc, oldAudio, oldTranscripts, cudaFlag, cpuThreads, accel, arg, res >>
  /\ UNCHANGED << eng, segs, segIdx, text, meta, transcripts, wrote >>
  /\ UNCHANGED << gateVars, dlVars >>
  /\ UNCHANGED device

\* lines 151-156
Metadata(g) ==
  [start |-> Round2(g.start), end |-> Round2(g.end), text |-> g.text,
   avg_logprob |-> Round2(g.avg_logprob)]

\* a variant that drops the newline
AddTextNoNewline(t, g) == t \o g.text

\* line 148
AddText(t, g) == t \o g.text \o <<"\n">>

\* line 157
AddMeta(m, g) == Append(m, Metadata(g))

\* a variant that writes the artifact segment by segment
SegmentStepWriting(v) ==
  /\ running = v
  /\ pc[v] = "segments"
  /\ IF segIdx[v] < Len(segs[v])
     THEN /\ text' = Set(text, v, AddText(text[v], segs[v][segIdx[v] + 1]))
          /\ meta' = Set(meta, v, AddMeta(meta[v], segs[v][segIdx[v] + 1]))
          /\ segIdx' = Set(segIdx, v, segIdx[v] + 1)
          /\ transcripts' = (TranscriptPath(filename[v]) :> text'[v]) @@ transcripts
          /\ wrote' = Set(wrote, v, TRUE)
          /\ UNCHANGED pc
     ELSE /\ pc' = Set(pc, v, "write")
          /\ UNCHANGED << text, meta, segIdx, transcripts, wrote >>
  /\ UNCHANGED << K, title, ready, running, runState, taskExc, oldAudio, oldTranscripts, cudaFlag, cpuThreads, accel, arg, res >>
  /\ UNCHANGED << eng, segs, ret >>
  /\ UNCHANGED << gateVars, dlVars >>
  /\ UNCHANGED device

\* lines 146-157: one turn of the for loop, or its end
SegmentStep(v) ==
  /\ running = v
  /\ pc[v] = "segments"
  /\ IF segIdx[v] < Len(segs[v])
     THEN /\ text' = Set(text, v, AddText(text[v], segs[v][segIdx[v] + 1]))
          /\ meta' = Set(meta, v, AddMeta(meta[v], segs[v][segIdx[v] + 1]))
          /\ segIdx' = Set(segIdx, v, segIdx[v] + 1)
          /\ UNCHANGED pc
     ELSE /\ pc' = Set(pc, v, "write")
          /\ UNCHANGED << text, meta, segIdx >>
  /\ UNCHANGED << K, title, ready, running, runState, taskExc, oldAudio, oldTranscripts, cudaFlag, cpuThreads, accel, arg, res >>
  /\ UNCHANGED << eng, segs, ret, transcripts, wrote >>
  /\ UNCHANGED << gateVars, dlVars >>
  /\ UNCHANGED device

\* line 146: the iterator runs the engine as it is consumed and may raise
SegmentRaise(v) ==
  /\ running = v
  /\ pc[v] = "segments"
  /\ eng' = Set(eng, v, "itererror")
  /\ pc' = Set(pc, v, "raising")
  /\ UNCHANGED << K, title, ready, running, runState, taskExc, oldAudio, oldTranscripts, cudaFlag, cpuThreads, accel, arg, res >>
  /\ UNCHANGED << segs, segIdx, text, meta, ret, transcripts, wrote >>
  /\ UNCHANGED << gateVars, dlVars >>
  /\ UNCHANGED device

\* line 163
FullReturn(v) == [kind |-> "full", text |-> text[v], meta |-> meta[v], sentences |-> <<>>]

\* a variant that leaves an artifact of that name as it finds it
WriteTranscriptKeep(v) ==
  /\ running = v
  /\ pc[v] = "write"
  /\ transcripts' = transcripts @@ (TranscriptPath(filename[v]) :> text[v])
  /\ wrote' = Set(wrote, v, TRUE)
  /\ ret' = Set(ret, v, FullReturn(v))
  /\ pc' = Set(pc, v, "leaving")
  /\ UNCHANGED << K, title, ready, running, runState, taskExc, oldAudio, oldTranscripts, cudaFlag, cpuThreads, accel, arg, res >>
  /\ UNCHANGED << eng, segs, segIdx, text, meta >>
  /\ UNCHANGED << gateVars, dlVars >>
  /\ UNCHANGED device

\* lines 158-163: open(..., 'w') creates or truncates the artifact
WriteTranscript(v) ==
  /\ running = v
  /\ pc[v] = "write"
  /\ transcripts' = (TranscriptPath(filename[v]) :> text[v]) @@ transcripts
  /\ wrote' = Set(wrote, v, TRUE)
  /\ ret' = Set(ret, v, FullReturn(v))
  /\ pc' = Set(pc, v, "leaving")
  /\ UNCHANGED << K, title, ready, running, runState, taskExc, oldAudio, oldTranscripts, cudaFlag, cpuThreads, accel, arg, res >>
  /\ UNCHANGED << eng, segs, segIdx, text, meta >>
  /\ UNCHANGED << gateVars, dlVars >>
  /\ UNCHANGED device

\* a variant that hands the permit to the waiter that came last
ReleaseLast(v) ==
  /\ released' = Set(released, v, released[v] + 1)
  /\ IF waiters # <<>>
     THEN /\ waiters' = SubSeq(waiters, 1, Len(waiters) - 1)
          /\ ready' = Append(ready, waiters[Len(waiters)])
          /\ acquired' = Set(acquired, waiters[Len(waiters)], acquired[waiters[Len(waiters)]] + 1)
          /\ UNCHANGED value
     ELSE /\ value' = value + 1
          /\ UNCHANGED << waiters, ready, acquired >>

\* a variant that puts the permit back and wakes nobody
ReleaseNoWake(v) ==
  /\ released' = Set(released, v, released[v] + 1)
  /\ value' = value + 1
  /\ UNCHANGED << waiters, ready, acquired >>

\* asyncio.Semaphore.release() as called by `async with` on exit: the permit
\* goes to the first waiter, which is scheduled, or back to the counter
Release(v) ==
  /\ released' = Set(released, v, released[v] + 1)
  /\ IF waiters # <<>>
     THEN /\ waiters' = Tail(waiters)
          /\ ready' = Append(ready, Head(waiters))
          /\ acquired' = Set(acquired, Head(waiters), acquired[Head(waiters)] + 1)
          /\ UNCHANGED value
     ELSE /\ value' = value + 1
          /\ UNCHANGED << waiters, ready, acquired >>

\* how a task that leaves the with block normally ends
Ended(v) == IF eng[v] = "returned" THEN "done" ELSE "skipped"

\* a variant that gives the permit back on the normal path only
ExitGateLeak(v) ==
  /\ running = v
  /\ pc[v] \in {"leaving", "raising"}
  /\ IF pc[v] = "raising"
     THEN /\ pc' = Set(pc, v, "except")
          /\ UNCHANGED << running, ready, gateVars >>
     ELSE /\ Release(v)
          /\ pc' = Set(pc, v, Ended(v))
          /\ running' = 0
  /\ counter' = Set(counter, v, 0)
  /\ segs' = Set(segs, v, <<>>)
  /\ segIdx' = Set(segIdx, v, 0)
  /\ text' = Set(text, v, <<>>)
  /\ meta' = Set(meta, v, <<>>)
  /\ ret' = Set(ret, v, NoRet)
  /\ device' = Set(device, v, NoDevice)
  /\ UNCHANGED << K, title, runState, taskExc, oldAudio, oldTranscripts, cudaFlag, cpuThreads, accel, arg, res >>
  /\ UNCHANGED << filename, audio, dl, eng, transcripts, wrote >>

\* lines 189-196: leaving `async with`, normally or with an exception in
\* flight; the frames of download_audio and of the transcription call are
\* gone, and their locals and the unused return value with them
ExitGate(v) ==
  /\ running = v
  /\ pc[v] \in {"leaving", "raising"}
  /\ Release(v)
  /\ IF pc[v] = "raising"
     THEN /\ pc' = Set(pc, v, "except")
          /\ UNCHANGED running
     ELSE /\ pc' = Set(pc, v, Ended(v))
          /\ running' = 0
  /\ counter' = Set(counter, v, 0)
  /\ segs' = Set(segs, v, <<>>)
  /\ segIdx' = Set(segIdx, v, 0)
  /\ text' = Set(text, v, <<>>)
  /\ meta' = Set(meta, v, <<>>)
  /\ ret' = Set(ret, v, NoRet)
  /\ device' = Set(device, v, NoDevice)
  /\ UNCHANGED << K, title, runState, taskExc, oldAudio, oldTranscripts, cudaFlag, cpuThreads, accel, arg, res >>
  /\ UNCHANGED << filename, audio, dl, eng, transcripts, wrote >>

\* a variant whose handler lets the exception go on
HandlerPropagates(v) ==
  /\ running = v
  /\ pc[v] = "except"
  /\ pc' = Set(pc, v, "failed")
  /\ taskExc' = Set(taskExc, v, TRUE)
  /\ running' = 0
  /\ UNCHANGED << K, title, ready, runState, oldAudio, oldTranscripts, cudaFlag, cpuThreads, accel, arg, res >>
  /\ UNCHANGED << gateVars, dlVars, engVars >>

\* lines 196-197: `except Exception` logs the error; the task ends normally
Handler(v) ==
  /\ running = v
  /\ pc[v] = "except"
  /\ pc' = Set(pc, v, "failed")
  /\ running' = 0
  /\ UNCHANGED << K, title, ready, runState, taskExc, oldAudio, oldTranscripts, cudaFlag, cpuThreads, accel, arg, res >>
  /\ UNCHANGED << gateVars, dlVars, engVars >>

Terminal == {"done", "skipped", "failed"}

\* a variant that is done with the first task that ends
GatherFirst == (\E v \in V : taskExc[v]) \/ (\E v \in V : pc[v] \in Terminal) \/ V = {}

\* asyncio.gather(*tasks): done when every task has ended, or as soon as one
\* task ends with an exception
GatherReady == (\E v \in V : taskExc[v]) \/ (\A v \in V : pc[v] \in Terminal)

\* line 199: `await asyncio.gather(*tasks)` completes and the call returns,
\* or re-raises a task's exception
GatherDone ==
  /\ runState = "awaiting"
  /\ running = 0
  /\ GatherReady
  /\ runState' = IF \E v \in V : taskExc[v] THEN "raised" ELSE "returned"
  /\ UNCHANGED << K, title, pc, ready, running, taskExc, oldAudio, oldTranscripts, cudaFlag, cpuThreads, accel, arg, res >>
  /\ UNCHANGED << gateVars, dlVars, engVars >>

\* ------------------------------------------------------ specifications

Next ==
  \/ \E v \in V : TaskStart(v)
  \/ \E v \in V : GateWake(v)
  \/ \E v \in V : DownloadAudioEnter(v)
  \/ \E v \in V : ProbeStep(v)
  \/ \E v \in V : SelectStream(v)
  \/ \E v \in V : DownloadFinish(v)
  \/ \E v \in V : CheckDownload(v)
  \/ \E v \in V : ComputeEnter(v)
  \/ \E v \in V : EngineReturn(v)
  \/ \E v \in V : EngineResume(v)
  \/ \E v \in V : SegmentStep(v)
  \/ \E v \in V : SegmentRaise(v)
  \/ \E v \in V : WriteTranscript(v)
  \/ \E v \in V : ExitGate(v)
  \/ \E v \in V : Handler(v)
  \/ GatherDone

Spec == Init /\ [][Next]_vars

\* a step of the event loop: it resumes the task at the head of its queue, or
\* the running task goes on to its next suspension point or to its end
LoopStep ==
  \/ \E v \in V : TaskStart(v)
  \/ \E v \in V : GateWake(v)
  \/ \E v \in V : DownloadAudioEnter(v)
  \/ \E v \in V : ProbeStep(v)
  \/ \E v \in V : SelectStream(v)
  \/ \E v \in V : DownloadFinish(v)
  \/ \E v \in V : CheckDownload(v)
  \/ \E v \in V : ComputeEnter(v)
  \/ \E v \in V : EngineResume(v)
  \/ \E v \in V : SegmentStep(v)
  \/ \E v \in V : SegmentRaise(v)
  \/ \E v \in V : WriteTranscript(v)
  \/ \E v \in V : ExitGate(v)
  \/ \E v \in V : Handler(v)
  \/ GatherDone

\* the engine call of some video ends in its worker thread
ThreadStep == \E v \in V : EngineReturn(v)

\* asyncio.run keeps the loop running while there is work, and every call
\* handed to a worker thread returns or raises
Fairness == WF_vars(LoopStep) /\ WF_vars(ThreadStep)

FairSpec == Spec /\ Fairness

\* one video, one permit, and an engine that may return any segment sequence
InitOne == Start(TitleLists(1), OldDisks(TRUE)) /\ K = 1 /\ N = 1 /\ Defaults

NextOne ==
  \/ \E v \in V : TaskStart(v)
  \/ \E v \in V : DownloadAudioEnter(v)
  \/ \E v \in V : ProbeStep(v)
  \/ \E v \in V : SelectStream(v)
  \/ \E v \in V : DownloadFinish(v)
  \/ \E v \in V : CheckDownload(v)
  \/ \E v \in V : ComputeEnter(v)
  \/ \E v \in V : EngineReturnAny(v)
  \/ \E v \in V : EngineResume(v)
  \/ \E v \in V : SegmentStep(v)
  \/ \E v \in V : SegmentRaise(v)
  \/ \E v \in V : WriteTranscript(v)
  \/ \E v \in V : ExitGate(v)
  \/ \E v \in V : Handler(v)
  \/ GatherDone

SpecOne == InitOne /\ [][NextOne]_vars

\* one video more than Spec allows, each with a title that cleans to a
\* name, all the permits, and silent recordings
InitWide ==
  /\ Start([1..(MaxVideos + 1) -> { t \in RawTitles : CleanFilename(t) # <<>> }], OldDisks(FALSE))
  /\ K = MaxK
  /\ Defaults

NextWide ==
  \/ \E v \in V : TaskStart(v)
  \/ \E v \in V : GateWake(v)
  \/ \E v \in V : DownloadAudioEnter(v)
  \/ \E v \in V : ProbeStep(v)
  \/ \E v \in V : SelectStream(v)
  \/ \E v \in V : DownloadFinish(v)
  \/ \E v \in V : CheckDownload(v)
  \/ \E v \in V : ComputeEnter(v)
  \/ \E v \in V : EngineReturnShort(v)
  \/ \E v \in V : EngineResume(v)
  \/ \E v \in V : SegmentStep(v)
  \/ \E v \in V : SegmentRaise(v)
  \/ \E v \in V : WriteTranscript(v)
  \/ \E v \in V : ExitGate(v)
  \/ \E v \in V : Handler(v)
  \/ GatherDone

SpecWide == InitWide /\ [][NextWide]_vars

\* a full list of videos whose titles clean to a name, on a disk that may
\* hold audio files and transcripts of earlier runs, with at least one permit
InitDisk ==
  /\ Start([1..MaxVideos -> { t \in RawTitles : CleanFilename(t) # <<>> }], OldDisks(TRUE))
  /\ K >= 1
  /\ Defaults

SpecDisk == InitDisk /\ [][Next]_vars

\* one video and one permit, under every combination of the options
InitDevice == Start(TitleLists(1), OldDisks(FALSE)) /\ K = 1 /\ N = 1 /\ AnyOptions

SpecDevice == InitDevice /\ [][NextOne]_vars

\* no video: the text functions are called on their own (the pipeline does
\* not call the splitter, line 149)
InitText == Start({ <<>> }, { << {}, {} >> }) /\ K = 1 /\ Defaults

\* lines 66-82: sophisticated_sentence_splitter(text)
SplitterCall ==
  /\ res = NoCall
  /\ \E t \in SplitTexts :
       /\ arg' = t
       /\ res' = [fn |-> "split", val |-> SophisticatedSentenceSplitter(t)]
  /\ UNCHANGED pipeVars

NextSplit == SplitterCall

SpecSplit == InitText /\ [][NextSplit]_vars

\* lines 85-89: clean_filename(title)
CleanCall ==
  /\ res = NoCall
  /\ \E t \in CleanTexts :
       /\ arg' = t
       /\ res' = [fn |-> "clean", val |-> CleanFilename(t)]
  /\ UNCHANGED pipeVars

NextClean == CleanCall

SpecClean == InitText /\ [][NextClean]_vars

\* two videos more than Spec allows, all of one title, with silent
\* recordings: with two permits two tasks wait at the gate
InitQueue ==
  /\ Start({ [i \in 1..(MaxVideos + 2) |-> <<"A">>] }, OldDisks(FALSE))
  /\ K >= 1
  /\ Defaults

SpecQueue == InitQueue /\ [][NextWide]_vars

\* ----------------------------------------------------- phases of a video

Waiting(v) == pc[v] \in {"created", "gate"}

\* download_audio has started and has neither returned nor raised
InFlight(v) == pc[v] \in {"probe", "stream", "download"}

\* inside compute_transcript_with_whisper_from_audio_func
Transcribing(v) == pc[v] \in {"compute", "engine", "engine_done", "segments", "write"}

Done(v) == pc[v] = "done"

Failed(v) == pc[v] \in {"failed", "skipped"}

\* permits the task holds
Holding(v) == acquired[v] - released[v]

\* a stage of the video raised an exception that reaches download_and_transcribe
StageRaised(v) == dl[v] = "nostream" \/ eng[v] \in {"loaderror", "callerror", "itererror"}

\* the acquisition failed: no audio-only stream, or a transport error
AcquireFailed(v) == dl[v] \in {"nostream", "error", "errorfile"}

\* stream.download raised a transport error
TransportError(v) == dl[v] \in {"error", "errorfile"}

\* both stages of the video ran and succeeded
StagesOk(v) == dl[v] = "ok" /\ eng[v] = "returned"

\* ------------------------------------------------------------------ C1

\* C1: with K >= 1 permits, at most K videos have their download in flight
\* (download_audio started and not yet returned or raised) in any state.
Thm_C1 == K >= 1 => Cardinality({v \in V : InFlight(v)}) <= K

\* a download is in progress while another video has not got through the gate
Wit_C1 == \E v, w \in V : pc[v] = "download" /\ Waiting(w) /\ K >= 1

\* ------------------------------------------------------------------ C2

\* C2: the gate is held for the download phase only: a video that is being
\* transcribed holds no permit.
CE_C2 == \A v \in V : Transcribing(v) => Holding(v) = 0

\* ------------------------------------------------------------------ C3

\* C3: an exception raised by a video's acquire or transcribe stage is caught
\* at that video's boundary: no task ends with an exception, the call never
\* raises, the run is never stuck before it returns, and once it has
\* returned the video whose stage raised is Failed and every video whose
\* stages succeeded is Done.
Thm_C3 ==
  /\ runState # "raised"
  /\ \A v \in V : ~taskExc[v]
  /\ (K >= 1 /\ runState = "awaiting") => ENABLED Next
  /\ runState = "returned" =>
       \A v \in V : /\ StageRaised(v) => Failed(v)
                    /\ StagesOk(v) => Done(v)

\* the run returned with one video failed by an exception and a sibling done
Wit_C3 ==
  /\ runState = "returned"
  /\ \E v, w \in V : StageRaised(v) /\ pc[v] = "failed" /\ StagesOk(w) /\ Done(w) /\ v < w

\* ------------------------------------------------------------------ C4

\* C4: when process_video_or_playlist has returned, every video is Done or
\* Failed: none waits at the gate, downloads or is being transcribed.
Thm_C4 ==
  runState = "returned" =>
    \A v \in V : /\ Done(v) \/ Failed(v)
                 /\ ~Waiting(v) /\ ~InFlight(v) /\ ~Transcribing(v)
                 /\ v \notin {waiters[i] : i \in 1..Len(waiters)}

\* the run returned after two videos, one done and one failed
Wit_C4 == runState = "returned" /\ N = 2 /\ \E v, w \in V : Done(v) /\ Failed(w)

\* ------------------------------------------------------------------ C5

\* C5: within one video the download has completed before the transcription
\* starts, and the engine call has returned and all its segments are consumed
\* before the transcript is written; no transcript of a video is persisted
\* while its download or engine call has not finished.
Thm_C5 ==
  \A v \in V :
    /\ (Transcribing(v) \/ eng[v] # "none") =>
         /\ dl[v] = "ok"
         /\ AudioPath(filename[v]) \in DOMAIN audio
         /\ audio[AudioPath(filename[v])] = AudioOf(v)
    /\ wrote[v] =>
         /\ dl[v] = "ok"
         /\ eng[v] = "returned"
         /\ pc[v] \in {"leaving", "done"}
         /\ TranscriptPath(filename[v]) \in DOMAIN transcripts
    /\ (wrote[v] /\ pc[v] = "leaving") => segIdx[v] = Len(segs[v])
    /\ pc[v] = "write" => eng[v] = "returned" /\ segIdx[v] = Len(segs[v])

\* the transcript of a recording with segments has just been written
Wit_C5 == \E v \in V : wrote[v] /\ pc[v] = "leaving" /\ Len(segs[v]) = MaxSegs /\ MaxSegs >= 1

\* ------------------------------------------------------------------ C6

\* the i-th name download_audio tries for a base name
NameAt(b, i) == IF i = 0 THEN b ELSE Suffixed(b, i)

\* the videos with cleaned title b whose download succeeded
Acquired(b) == {v \in V : dl[v] = "ok" /\ CleanFilename(title[v]) = b}

\* the directory held nothing before the run and every download succeeded
CleanRun == oldAudio = {} /\ \A v \in V : dl[v] \in {"none", "ok"}

\* C6 as stated: the N successful acquisitions of one title leave the files
\* base, base_1, ..., base_{N-1} (here even in a run that starts from an
\* empty directory and sees no failure).
CE_C6 ==
  CleanRun =>
    \A b \in {CleanFilename(t) : t \in RawTitles} :
      {filename[v] : v \in Acquired(b)} = {NameAt(b, i) : i \in 0..(Cardinality(Acquired(b)) - 1)}

\* the names download_audio tries for a title, in order: base, base_1, ...,
\* each with the path it probes
Candidates ==
  [t \in RawTitles |->
    [i \in 0..(2 * (MaxVideos + 1)) |->
      [name |-> NameAt(CleanFilename(t), i),
       path |-> AudioPath(NameAt(CleanFilename(t), i))]]]

\* the download of video v created a file (complete or partial)
Wrote(v) == dl[v] \in {"ok", "errorfile"}

\* C6 amended: download_audio writes only to a path that does not exist at the
\* moment of the write, so no existing audio file is ever overwritten: every
\* file that was on disk before the run, every file of a successful
\* acquisition and every leftover of a failed one is still as it was
\* written, the disk holds nothing else, N successful acquisitions leave N
\* distinct files, and each acquisition takes the first free name of base,
\* base_1, base_2, ...
Thm_C6 ==
  /\ \A p \in oldAudio : p \in DOMAIN audio /\ audio[p] = OldFile
  /\ \A v \in V : Wrote(v) =>
       \E i \in 0..(2 * N) :
         /\ filename[v] = Candidates[title[v]][i].name
         /\ Candidates[title[v]][i].path \in DOMAIN audio
         /\ audio[Candidates[title[v]][i].path]
              = (IF dl[v] = "ok" THEN AudioOf(v) ELSE PartialOf(v))
         /\ \A j \in 0..(i - 1) : Candidates[title[v]][j].path \in DOMAIN audio
  /\ DOMAIN audio = oldAudio \cup {AudioPath(filename[v]) : v \in {w \in V : Wrote(w)}}
  /\ \A v \in V : Wrote(v) =>
       \A w \in (v + 1)..N : Wrote(w) => filename[v] # filename[w]

\* two videos of one title were acquired beside a file of a previous run
Wit_C6 ==
  \E v, w \in V :
    /\ v # w /\ dl[v] = "ok" /\ dl[w] = "ok"
    /\ title[v] = title[w]
    /\ AudioPath(CleanFilename(title[v])) \in oldAudio
    /\ filename[v] = Suffixed(CleanFilename(title[v]), 1)
    /\ filename[w] = Suffixed(CleanFilename(title[v]), 2)

\* ------------------------------------------------------------------ C7

\* C7: every permit a video acquires is released exactly once on every exit
\* path (success, returned download failure, raised exception): free permits
\* plus permits held are K in every state, and all K are free once the run
\* has returned.
Thm_C7 ==
  /\ value >= 0
  /\ \A v \in V : Holding(v) \in {0, 1} /\ acquired[v] <= 1
  /\ value + Cardinality({v \in V : Holding(v) = 1}) = K
  /\ \A v \in V : pc[v] \in Terminal => Holding(v) = 0
  /\ \A v \in V : (Done(v) \/ Failed(v)) /\ K >= 1 => acquired[v] = 1 /\ released[v] = 1
  /\ runState = "returned" => value = K

\* the run returned with all permits free after a raised exception, a
\* returned download failure and a success were seen
Wit_C7 ==
  /\ runState = "returned" /\ value = K /\ K >= 1
  /\ \E v, w \in V : ((pc[v] = "failed" /\ TransportError(w) /\ pc[w] = "skipped")
                      \/ (pc[v] = "failed" /\ Done(w)))

\* ------------------------------------------------------------------ C8

\* C8: a video with no audio-only stream, or whose download raises a
\* transport error, never has the engine invoked, has no transcript written,
\* ends Failed, and the other videos of the run are still processed.
Thm_C8 ==
  /\ \A v \in V : AcquireFailed(v) =>
       /\ eng[v] = "none"
       /\ ~Transcribing(v)
       /\ ~wrote[v]
       /\ pc[v] \in Terminal => Failed(v)
  /\ runState # "raised"
  /\ runState = "returned" => \A w \in V : (Done(w) \/ Failed(w)) /\ (StagesOk(w) => Done(w))

\* the run returned: one video was skipped on a transport error, another is done
Wit_C8 ==
  /\ runState = "returned"
  /\ \E v, w \in V : TransportError(v) /\ pc[v] = "skipped" /\ Done(w) /\ wrote[w] /\ v < w

\* ------------------------------------------------------------------ C9

\* the transcription call of v has just returned after an engine that
\* yielded no segment
EmptyRun(v) == pc[v] = "leaving" /\ eng[v] = "returned" /\ segs[v] = <<>>

\* C9: when the engine yields zero segments, the call returns an empty
\* combined text and an empty metadata sequence, an empty transcript artifact
\* is produced, and the video goes on to Done, not Failed.
Thm_C9 ==
  \A v \in V :
    /\ EmptyRun(v) =>
         /\ ret[v].kind = "full"
         /\ ret[v].text = <<>>
         /\ ret[v].meta = <<>>
         /\ wrote[v]
         /\ TranscriptPath(filename[v]) \in DOMAIN transcripts
         /\ transcripts[TranscriptPath(filename[v])] = <<>>
    /\ (pc[v] \in Terminal /\ eng[v] = "returned") => Done(v) /\ wrote[v]

\* an empty transcript has been written after an engine that yielded nothing
Wit_C9 ==
  \E v \in V : /\ EmptyRun(v)
               /\ wrote[v]
               /\ transcripts[TranscriptPath(filename[v])] = <<>>

\* ----------------------------------------------------------------- C10

RECURSIVE JoinLines(_)
\* the texts of the segments, each followed by a newline, in order
JoinLines(s) == IF s = <<>> THEN <<>> ELSE Head(s).text \o <<"\n">> \o JoinLines(Tail(s))

\* r (hundredths) is x (thousandths) rounded to 2 decimals
IsRounded2(x, r) == (10 * r - x) \in -5..5

\* m is the metadata record of segment g
RecordOf(m, g) ==
  /\ DOMAIN m = {"start", "end", "text", "avg_logprob"}
  /\ m.text = g.text
  /\ IsRounded2(g.start, m.start)
  /\ IsRounded2(g.end, m.end)
  /\ IsRounded2(g.avg_logprob, m.avg_logprob)

\* C10: the metadata sequence has one record per segment, in segment order
\* (start, end, avg_logprob rounded to 2 decimals, text unchanged), and the
\* combined text is the concatenation, in order, of each segment's text
\* followed by a newline; the same holds of the segments consumed so far
\* while the loop runs.
Thm_C10 ==
  \A v \in V :
    /\ pc[v] \in {"segments", "write"} =>
         /\ text[v] = JoinLines(SubSeq(segs[v], 1, segIdx[v]))
         /\ Len(meta[v]) = segIdx[v]
         /\ \A i \in 1..segIdx[v] : RecordOf(meta[v][i], segs[v][i])
    /\ (pc[v] = "leaving" /\ ret[v].kind = "full") =>
         /\ ret[v].text = JoinLines(segs[v])
         /\ Len(ret[v].meta) = Len(segs[v])
         /\ \A i \in 1..Len(segs[v]) : RecordOf(ret[v].meta[i], segs[v][i])

\* the call returned the transcript of the longest sequence, of unequal segments
Wit_C10 ==
  \E v \in V : /\ pc[v] = "leaving" /\ ret[v].kind = "full"
               /\ Len(segs[v]) = MaxSegs + 2
               /\ segs[v][1] # segs[v][2]

\* ----------------------------------------------------------------- C11

\* the transcript artifact keyed by the base name of v's audio file
ArtifactOf(v) == TranscriptPath(filename[v])

\* no step changes the artifact of a video that has written it
ArtifactStable ==
  \A v \in V : wrote[v] =>
    /\ ArtifactOf(v) \in DOMAIN transcripts'
    /\ transcripts'[ArtifactOf(v)] = transcripts[ArtifactOf(v)]

\* C11: a video that reaches Done has exactly one audio file under
\* downloaded_audio/ and exactly one transcript artifact, keyed by the base
\* name of that audio file; when the transcription call returns, the artifact
\* holds the video's combined text, whatever an artifact of that name held
\* before, and nothing changes it afterwards; no other transcript is created
\* or changed.
Thm_C11 ==
  /\ [](\A v \in V :
         /\ (wrote[v] /\ pc[v] = "leaving") =>
              /\ transcripts[ArtifactOf(v)] = text[v]
              /\ ret[v].text = text[v]
         /\ Done(v) =>
              /\ wrote[v]
              /\ {p \in DOMAIN audio : audio[p] = AudioOf(v)} = {AudioPath(filename[v])}
              /\ ArtifactOf(v) \in DOMAIN transcripts
              /\ \A w \in V : (wrote[w] /\ w # v) => ArtifactOf(w) # ArtifactOf(v))
  /\ [](/\ DOMAIN transcripts = oldTranscripts \cup {ArtifactOf(v) : v \in {w \in V : wrote[w]}}
        /\ \A p \in oldTranscripts :
             (\A v \in V : wrote[v] => ArtifactOf(v) # p) => transcripts[p] = OldText)
  /\ [][ArtifactStable]_vars

\* the run returned with two videos done, the artifact of one of them
\* written over a transcript of an earlier run
Wit_C11 ==
  /\ runState = "returned"
  /\ \E v, w \in V :
       /\ v # w /\ Done(v) /\ Done(w)
       /\ ArtifactOf(v) \in oldTranscripts
       /\ transcripts[ArtifactOf(v)] # OldText

\* ----------------------------------------------------------------- C12

\* the transcription call of v has chosen its device and has not returned
InCall(v) == pc[v] \in {"engine", "engine_done", "segments", "write"}

\* C12: in every transcription call, whatever the accelerator and the options
\* are, one device choice has been made when the engine is invoked: cuda with
\* float16 if and only if an accelerator is available and --cuda was given,
\* cpu with auto in every other case, and the engine is built with the
\* requested cpu_threads.
Thm_C12 ==
  \A v \in V :
    /\ InCall(v) =>
         /\ device[v].kind = "built"
         /\ (device[v].available /\ cudaFlag) =>
              device[v].device = "cuda" /\ device[v].compute_type = "float16"
         /\ ~(device[v].available /\ cudaFlag) =>
              device[v].device = "cpu" /\ device[v].compute_type = "auto"
         /\ device[v].cpu_threads = cpuThreads
    /\ (pc[v] \in {"created", "gate", "acquired", "probe", "stream", "download", "downloaded", "compute"})
         => device[v] = NoDevice

\* the engine runs on the accelerator with a number of threads that is not
\* the default
Wit_C12 ==
  \E v \in V : /\ pc[v] = "engine" /\ device[v].kind = "built"
               /\ device[v].device = "cuda" /\ cpuThreads # 4

\* ----------------------------------------------------------------- C13

\* the splitter has returned
Split == res.fn = "split"

\* C13: the splitter places no sentence boundary while the fragment gathered
\* since the previous boundary holds an odd number of double quotes: every
\* sentence it returns, except possibly the last, holds an even number of
\* them, and the text He said "Stop. Now." and left. comes back as one
\* sentence.
Thm_C13 ==
  Split =>
    /\ \A i \in 1..(Len(res.val) - 1) : CountQuotes(res.val[i]) % 2 = 0
    /\ arg = QuotedText => Len(res.val) = 1

\* the quoted text has been split: one sentence, with both quotes in it
Wit_C13 == Split /\ arg = QuotedText /\ Len(res.val) = 1 /\ CountQuotes(res.val[1]) = 2

\* ----------------------------------------------------------------- C14

RECURSIVE Concat(_)
\* the sentences one after the other
Concat(ss) == IF ss = <<>> THEN <<>> ELSE Head(ss) \o Concat(Tail(ss))

\* a text without its whitespace
NonSpace(t) == SelectSeq(t, LAMBDA c : c \notin SpaceChars)

\* C14: the sentences the splitter returns, concatenated in order, are the
\* text it was given up to whitespace: no other character is lost or moved.
CE_C14 == Split => NonSpace(Concat(res.val)) = NonSpace(arg)

\* ----------------------------------------------------------------- C15

\* clean_filename has returned
Cleaned == res.fn = "clean"

\* C15: for every title, the cleaned name holds no path separator and no
\* whitespace, and cleaning it again gives the same name.
CE_C15 ==
  Cleaned =>
    /\ \A i \in 1..Len(res.val) : res.val[i] \notin SpaceChars \cup {"/", "\\"}
    /\ CleanFilename(res.val) = res.val

\* ----------------------------------------------------------------- C16

\* v is inside one of the four steps: waiting for the gate, downloading,
\* having the engine called, writing the transcript file
InsideStep(v) == pc[v] \in {"gate", "download", "engine", "write"}

\* the loop resumes task w
Resume(w) == TaskStart(w) \/ GateWake(w) \/ EngineResume(w)

\* C16: each of the four steps is a suspension point: while a video is inside
\* one of them (and no third task occupies the loop), the task that is next
\* in the loop's queue can take its step.
CE_C16 ==
  \A v, w \in V :
    (/\ InsideStep(v) /\ running \in {0, v}
     /\ runState = "awaiting"
     /\ v # w /\ ready # <<>> /\ Head(ready) = w)
    => ENABLED Resume(w)

\* ----------------------------------------------------------------- C17

\* the run is over: the call has returned and every video is Done or Failed
RunOver == runState = "returned" /\ \A v \in V : Done(v) \/ Failed(v)

\* C17: with at least one permit, when every download and every engine call
\* returns or raises and the loop is scheduled fairly, every video ends Done
\* or Failed and process_video_or_playlist returns; in particular every video
\* that waits at the gate gets through it, also behind videos that failed
\* while they held the permit.
Thm_C17 == (K >= 1) => <>[]RunOver

\* the run returned with one permit: the first video failed while it held
\* the permit, and the second, which waited at the gate, is done
Wit_C17 ==
  /\ RunOver /\ K = 1 /\ N = 2
  /\ StageRaised(1) /\ pc[1] = "failed"
  /\ acquired[2] = 1 /\ Done(2)

\* ----------------------------------------------------------------- C18

\* the engine raised for v: when the model was built, at the call, or while
\* its segments were consumed
EngineRaised(v) == eng[v] \in {"loaderror", "callerror", "itererror"}

\* C18: when the engine raises for a video, no transcript artifact of that
\* video is created or changed (an artifact of that name left by an earlier
\* run keeps its content, nothing partial is written), the audio file of the
\* video stays on disk, and the video ends Failed.
Thm_C18 ==
  \A v \in V : EngineRaised(v) =>
    /\ ~wrote[v]
    /\ (ArtifactOf(v) \in DOMAIN transcripts) = (ArtifactOf(v) \in oldTranscripts)
    /\ ArtifactOf(v) \in oldTranscripts => transcripts[ArtifactOf(v)] = OldText
    /\ AudioPath(filename[v]) \in DOMAIN audio
    /\ audio[AudioPath(filename[v])] = AudioOf(v)
    /\ pc[v] \in Terminal => pc[v] = "failed"

\* a video failed while its segments were consumed, and the transcript an
\* earlier run left under its name is as it was
Wit_C18 ==
  \E v \in V : /\ pc[v] = "failed" /\ eng[v] = "itererror"
               /\ ArtifactOf(v) \in oldTranscripts
               /\ transcripts[ArtifactOf(v)] = OldText

\* ----------------------------------------------------------------- C19

\* C19: with max_simultaneous_downloads = 0 and at least one video the gate
\* has no permit and never gets one: in every state of the run no video has
\* acquired the gate or started its download, none is Done or Failed, and
\* process_video_or_playlist has not returned.
Thm_C19 ==
  (K = 0 /\ N >= 1) =>
    /\ value = 0
    /\ runState = "awaiting"
    /\ \A v \in V : /\ Waiting(v)
                    /\ acquired[v] = 0
                    /\ dl[v] = "none"
                    /\ ~Done(v) /\ ~Failed(v)

\* the deadlock: every video waits at the gate, the loop has nothing to
\* resume, and no step is possible
Wit_C19 ==
  /\ K = 0 /\ N = MaxVideos
  /\ \A v \in V : pc[v] = "gate"
  /\ Len(waiters) = N /\ ready = <<>>
  /\ ~ENABLED Next

\* ----------------------------------------------------------------- C20

\* download_audio has been entered for v
Started(v) == pc[v] \notin {"created", "gate", "acquired"}

\* the place of v's file name among the names tried for its title
SuffixOf(v) == CHOOSE k \in 0..(2 * N) : filename[v] = Candidates[title[v]][k].name

\* C20: videos get through the gate, and start their downloads, in the order
\* of the list: a video has been granted a permit only when every video
\* before it has been granted one, it has started only when every video
\* before it has started, and of two videos of one title that wrote a file
\* the earlier one has the smaller suffix.
Thm_C20 ==
  \A i, j \in V : i < j =>
    /\ acquired[j] >= 1 => acquired[i] >= 1
    /\ Started(j) => Started(i)
    /\ (title[i] = title[j] /\ Wrote(i) /\ Wrote(j)) => SuffixOf(i) < SuffixOf(j)

\* two permits and four videos: the third and the fourth waited at the gate,
\* and every video has written the file whose suffix is its place in the list
Wit_C20 ==
  /\ K = 2 /\ N = 4 /\ oldAudio = {}
  /\ \A v \in V : dl[v] = "ok" /\ SuffixOf(v) = v - 1

====
